---- MODULE Spec2Model ----
(***************************************************************************)
(* Model of backend/api.py: the /predict and /reset endpoints of the sign  *)
(* language service, the frame pipeline of SignLanguageSystem              *)
(* (process_frame), its classifier cascade and the letter lock state       *)
(* machine (_handle_prediction, reset_state).                              *)
(*                                                                         *)
(* A word is a sequence of one-character strings; " " is the separator.   *)
(* A symbol is "blank" or an upper-case letter.                            *)
(***************************************************************************)
EXTENDS Integers, Sequences, FiniteSets, TLC

VARIABLES
    current_word,        \* self.current_word
    last_prediction,     \* self.last_prediction
    stable_frame_count,  \* self.stable_frame_count, NoAttribute until set
    already_locked,      \* self.already_locked
    payload,             \* the image of the last request, "none" before one
    result,              \* what process_frame returned (or raised) last
    response,            \* what the endpoint answered last
    calls,               \* classifier predict() calls of the last frame
    region,              \* shape of the last decoded frame and its roi slice
    run,                 \* history: the _handle_prediction calls since reset
    pc,                  \* SpecRace: the line each request thread is at
    cur,                 \* SpecRace: each thread's current_prediction
    acc,                 \* SpecRace: the value each thread loaded for a +=
    commits,             \* history: appends to the word since the symbol changed
    overlaps             \* history: requests begun while another was in flight

session == <<current_word, last_prediction, stable_frame_count, already_locked>>

racevars == <<pc, cur, acc, commits, overlaps>>

vars == <<current_word, last_prediction, stable_frame_count, already_locked,
          payload, result, response, calls, region, run,
          pc, cur, acc, commits, overlaps>>

-----------------------------------------------------------------------------
(* Bounds of the model *)

\* letters _handle_prediction may commit under Spec before the word is full
MaxWordLen == 2

\* frames of one stable run under SpecCascade, whose frames carry the
\* letters of every group
MaxCascadeRun == 3

\* calls counted by the history variable beyond LOCK_THRESHOLD
MaxExtra == 2

\* requests begun under SpecRace while another is in flight, between resets
MaxOverlaps == 1

-----------------------------------------------------------------------------
(* Program constants *)

LOCK_THRESHOLD == 50

MIN_CONTOUR_AREA == 2500

roi_w == 515

roi_h == 289

\* the value of self.stable_frame_count while the attribute does not exist:
\* __init__ never assigns it, only reset_state and _handle_prediction do
NoAttribute == -1

ascii_uppercase ==
    <<"A", "B", "C", "D", "E", "F", "G", "H", "I", "J", "K", "L", "M",
      "N", "O", "P", "Q", "R", "S", "T", "U", "V", "W", "X", "Y", "Z">>

DRU == <<"D", "R", "U">>

TKDI == <<"D", "I", "K", "T">>

SMN == <<"M", "N", "S">>

Range(s) == {s[i] : i \in 1..Len(s)}

Min(a, b) == IF a <= b THEN a ELSE b

Max(a, b) == IF a >= b THEN a ELSE b

-----------------------------------------------------------------------------
(* _handle_prediction: letter lock and stability logic *)

\* line 163 reads self.stable_frame_count before anything has assigned it
raises_attribute_error(current_prediction) ==
    /\ current_prediction = last_prediction
    /\ ~already_locked
    /\ stable_frame_count = NoAttribute

\* the counter restarted at 0 on a symbol change
count_after_from_zero(current_prediction) ==
    IF current_prediction = last_prediction
    THEN IF ~already_locked THEN stable_frame_count + 1 ELSE stable_frame_count
    ELSE 0

\* the counter carried over a symbol change instead of restarted
count_after_carried(current_prediction) ==
    IF ~already_locked THEN stable_frame_count + 1 ELSE stable_frame_count

\* the counter incremented whether locked or not
count_after_unfrozen(current_prediction) ==
    IF current_prediction = last_prediction
    THEN stable_frame_count + 1
    ELSE 1

\* lines 161-168, the counter
count_after(current_prediction) ==
    IF current_prediction = last_prediction
    THEN IF ~already_locked THEN stable_frame_count + 1 ELSE stable_frame_count
    ELSE 1

\* the lock flag left as it is when the symbol changes
locked_after_kept(current_prediction) ==
    already_locked

\* lines 161-168, the lock flag
locked_after(current_prediction) ==
    IF current_prediction = last_prediction THEN already_locked ELSE FALSE

\* the percentage taken for the frame count itself
temporal_confidence_unscaled(count) ==
    Min(100, count)

\* line 171: min(100.0, (count / 50) * 100.0).  count * 100 is a multiple of
\* LOCK_THRESHOLD, so the quotient is the exact value of the expression (the
\* float the code returns is the double nearest to it).
temporal_confidence(count) ==
    Min(100, (count * 100) \div LOCK_THRESHOLD)

\* the threshold compared with > instead of >=
commit_due_late(count, locked) ==
    count > LOCK_THRESHOLD /\ ~locked

\* the commit taken without waiting for the threshold
commit_due_at_once(count, locked) ==
    count >= 1 /\ ~locked

\* line 174
commit_due(count, locked) ==
    count >= LOCK_THRESHOLD /\ ~locked

\* the separator appended without looking at the end of the word
committed_word_any_space(word, current_prediction) ==
    IF current_prediction = "blank"
    THEN IF word # <<>> THEN Append(word, " ") ELSE word
    ELSE Append(word, current_prediction)

\* the letter assigned to the word instead of appended
committed_word_assigned(word, current_prediction) ==
    IF current_prediction = "blank"
    THEN IF word # <<>> /\ word[Len(word)] # " "
         THEN Append(word, " ")
         ELSE word
    ELSE <<current_prediction>>

\* lines 175-179
committed_word(word, current_prediction) ==
    IF current_prediction = "blank"
    THEN IF word # <<>> /\ word[Len(word)] # " "
         THEN Append(word, " ")
         ELSE word
    ELSE Append(word, current_prediction)

\* the dict built from the word as it was when the call began
prediction_dict_word_before(current_prediction, confidence, word) ==
    [kind |-> "dict", prediction |-> current_prediction,
     confidence |-> confidence, word |-> current_word,
     character |-> current_prediction, sentence |-> "", error |-> ""]

\* lines 185-191
prediction_dict(current_prediction, confidence, word) ==
    [kind |-> "dict", prediction |-> current_prediction,
     confidence |-> confidence, word |-> word,
     character |-> current_prediction, sentence |-> "", error |-> ""]

\* a result that carries no prediction: None, an error dict, an exception
plain_result(kind, error) ==
    [kind |-> kind, prediction |-> "", confidence |-> 0, word |-> <<>>,
     character |-> "", sentence |-> "", error |-> error]

\* the history of completed _handle_prediction calls:
\*   pure, sym, len       all calls since reset_state had the symbol sym,
\*                        and there were len of them
\*   held, streak, fired  the latest calls in a row with one symbol: the
\*                        symbol, how many, and how many of them found the
\*                        condition of line 174 true
NotPure ==
    [pure |-> FALSE, sym |-> "blank", len |-> 0,
     held |-> "blank", streak |-> 0, fired |-> 0]

FreshRun ==
    [pure |-> TRUE, sym |-> "blank", len |-> 0,
     held |-> "blank", streak |-> 0, fired |-> 0]

\* the history after one more completed _handle_prediction call
run_after(current_prediction) ==
    LET first == IF run.pure /\ (run.len = 0 \/ run.sym = current_prediction)
                 THEN [pure |-> TRUE, sym |-> current_prediction,
                       len |-> Min(run.len + 1, LOCK_THRESHOLD + MaxExtra)]
                 ELSE [pure |-> FALSE, sym |-> "blank", len |-> 0]
        same == run.streak > 0 /\ run.held = current_prediction
        fires == IF commit_due(count_after(current_prediction),
                               locked_after(current_prediction))
                 THEN 1 ELSE 0
    IN [pure |-> first.pure, sym |-> first.sym, len |-> first.len,
        held |-> current_prediction,
        streak |-> IF same
                   THEN Min(run.streak + 1, LOCK_THRESHOLD + MaxExtra)
                   ELSE 1,
        fired |-> IF same THEN run.fired + fires ELSE fires]

handle_prediction(current_prediction) ==
    IF raises_attribute_error(current_prediction)
    THEN /\ result' = plain_result("raise", "AttributeError")
         /\ UNCHANGED <<session, run>>
    ELSE LET count == count_after(current_prediction)
             locked == locked_after(current_prediction)
             commit == commit_due(count, locked)
             word == IF commit
                     THEN committed_word(current_word, current_prediction)
                     ELSE current_word
         IN /\ last_prediction' = current_prediction
            /\ stable_frame_count' = count
            /\ already_locked' = (locked \/ commit)
            /\ current_word' = word
            /\ result' = prediction_dict(current_prediction,
                                         temporal_confidence(count), word)
            /\ run' = run_after(current_prediction)

\* a reset that forgets the frame counter
reset_state_keeps_count ==
    /\ current_word' = <<>>
    /\ last_prediction' = "blank"
    /\ already_locked' = FALSE
    /\ UNCHANGED stable_frame_count

\* lines 73-77
reset_state ==
    /\ current_word' = <<>>
    /\ last_prediction' = "blank"
    /\ stable_frame_count' = 0
    /\ already_locked' = FALSE

-----------------------------------------------------------------------------
(* process_frame: decoding, region of interest, contours, cascade *)

(* A request d carries what the frame's image turns out to be:             *)
(*   image     "absent" (no 'image' key), "empty" (a falsy payload),       *)
(*             "malformed" (b64decode/imdecode raise), "undecodable"       *)
(*             (imdecode returns None) or "valid"                          *)
(*   h, w      the decoded frame's shape                                   *)
(*   contours  the areas of the external contours of the binary image      *)
(*   primary, dru, tkdi, smn   the argmax of what each model's predict()   *)
(*             returns for the mask, were it called                        *)
(*   fail      the model whose predict() raises, or "none"                 *)

\* a decoder whose failure is not noticed
decodes_anything(image) ==
    TRUE

\* lines 83-92: does process_frame get a frame out of the payload
decodes(image) ==
    image = "valid"

\* the slice taken with its full height whatever the frame's
roi_rows_unclamped(h) ==
    roi_h

\* lines 96-100: rows and columns of frame[y1:y1+roi_h, x1:x1+roi_w]
roi_rows(h) ==
    LET y1 == Max(0, (h - roi_h) \div 2)
    IN Max(0, Min(h, y1 + roi_h) - y1)

roi_cols(w) ==
    LET x1 == Max(0, (w - roi_w) \div 2)
    IN Max(0, Min(w, x1 + roi_w) - x1)

\* lines 95-100: the frame's shape, where the slice starts and what it holds
roi(h, w) ==
    [h |-> h, w |-> w,
     y1 |-> Max(0, (h - roi_h) \div 2), x1 |-> Max(0, (w - roi_w) \div 2),
     rows |-> roi_rows(h), cols |-> roi_cols(w)]

\* no frame decoded: lines 95-100 not reached
no_region ==
    [h |-> 0, w |-> 0, y1 |-> 0, x1 |-> 0, rows |-> 0, cols |-> 0]

\* roi.size of line 102 (three colour channels)
roi_size(h, w) ==
    roi_rows(h) * roi_cols(w) * 3

RECURSIVE max_area(_)
max_area(contours) ==
    IF Len(contours) = 1
    THEN contours[1]
    ELSE Max(contours[1], max_area(Tail(contours)))

\* any contour counted as a hand, whatever its area
no_hand_without_contours(contours) ==
    contours = <<>>

\* line 125
no_hand(contours) ==
    contours = <<>> \/ max_area(contours) < MIN_CONTOUR_AREA

\* lines 138-143: label 0 is blank, label i+1 is ascii_uppercase[i]
top_symbol(argmax) ==
    IF argmax = 0 THEN "blank" ELSE ascii_uppercase[argmax]

\* the if/elif chain with the TKDI group tested first
refining_model_tkdi_first(top) ==
    IF top \in Range(TKDI) THEN "tkdi"
    ELSE IF top \in Range(DRU) THEN "dru"
    ELSE IF top \in Range(SMN) THEN "smn"
    ELSE "none"

\* lines 147, 150, 153: the model the if/elif chain consults for a top symbol
refining_model(top) ==
    IF top \in Range(DRU) THEN "dru"
    ELSE IF top \in Range(TKDI) THEN "tkdi"
    ELSE IF top \in Range(SMN) THEN "smn"
    ELSE "none"

\* the primary model's candidate kept whatever the group's model says
final_symbol_of_candidate(top, d) ==
    top

\* the DRU model called and its output dropped
final_symbol_dru_dropped(top, d) ==
    LET m == refining_model(top)
    IN IF m = "tkdi" THEN TKDI[d.tkdi + 1]
       ELSE IF m = "smn" THEN SMN[d.smn + 1]
       ELSE top

\* lines 146-155
final_symbol(top, d) ==
    LET m == refining_model(top)
    IN IF m = "dru" THEN DRU[d.dru + 1]
       ELSE IF m = "tkdi" THEN TKDI[d.tkdi + 1]
       ELSE IF m = "smn" THEN SMN[d.smn + 1]
       ELSE top

\* one predict() call: the model, the argmax it returned, whether it raised
call(model, argmax, raised) ==
    [model |-> model, argmax |-> IF raised THEN 0 ELSE argmax, raised |-> raised]

\* lines 137-155: the predict() calls process_frame makes for a mask, in order
predict_calls(d) ==
    LET first == call("primary", d.primary, d.fail = "primary")
        m == refining_model(top_symbol(d.primary))
    IN IF first.raised \/ m = "none"
       THEN <<first>>
       ELSE <<first, call(m, d[m], d.fail = m)>>

\* does the frame get as far as _handle_prediction, and with which symbol
reaches_handle_prediction(d) ==
    /\ d.image \notin {"absent", "empty"}
    /\ decodes(d.image)
    /\ \/ roi_size(d.h, d.w) = 0
       \/ no_hand(d.contours)
       \/ \A i \in 1..Len(predict_calls(d)) : ~predict_calls(d)[i].raised

\* the symbol handed to _handle_prediction at line 103, 126 or 157
handled_symbol(d) ==
    IF roi_size(d.h, d.w) = 0 \/ no_hand(d.contours)
    THEN "blank"
    ELSE final_symbol(top_symbol(d.primary), d)

\* lines 79-157
process_frame(d) ==
    IF d.image = "empty"
    THEN /\ result' = plain_result("dict", "No image data")
         /\ calls' = <<>>
         /\ region' = no_region
         /\ UNCHANGED <<session, run>>
    ELSE IF ~decodes(d.image)
    THEN /\ result' = plain_result("None", "")
         /\ calls' = <<>>
         /\ region' = no_region
         /\ UNCHANGED <<session, run>>
    ELSE IF roi_size(d.h, d.w) = 0 \/ no_hand(d.contours)
    THEN /\ calls' = <<>>
         /\ region' = roi(d.h, d.w)
         /\ handle_prediction("blank")
    ELSE IF \E i \in 1..Len(predict_calls(d)) : predict_calls(d)[i].raised
    THEN /\ calls' = predict_calls(d)
         /\ region' = roi(d.h, d.w)
         /\ result' = plain_result("raise", "PredictionFailure")
         /\ UNCHANGED <<session, run>>
    ELSE /\ calls' = predict_calls(d)
         /\ region' = roi(d.h, d.w)
         /\ handle_prediction(final_symbol(top_symbol(d.primary), d))

-----------------------------------------------------------------------------
(* The endpoints *)

\* line 202: a dict with keys is truthy, None is not
truthy(r) ==
    r.kind = "dict"

\* lines 195-204; an exception that leaves the view is answered by the
\* framework with status 500
predict(d) ==
    IF d.image = "absent"
    THEN /\ payload' = d.image
         /\ response' = [status |-> 400, body |-> "No image data"]
         /\ result' = plain_result("not called", "")
         /\ calls' = <<>>
         /\ region' = no_region
         /\ UNCHANGED <<session, run>>
    ELSE /\ payload' = d.image
         /\ process_frame(d)
         /\ response' = IF result'.kind = "raise"
                        THEN [status |-> 500, body |-> "Internal Server Error"]
                        ELSE IF truthy(result')
                        THEN [status |-> 200, body |-> "result"]
                        ELSE [status |-> 500, body |-> "Processing failed"]

\* lines 206-209
reset ==
    /\ reset_state
    /\ payload' = "none"
    /\ response' = [status |-> 200, body |-> "Reset complete"]
    /\ result' = plain_result("not called", "")
    /\ calls' = <<>>
    /\ region' = no_region
    /\ run' = FreshRun

\* the request threads of the development server (app.run, line 212)
Threads == {1, 2}

\* lines 32-44 and 193: the module-level system, as __init__ leaves it
Init ==
    /\ current_word = <<>>
    /\ last_prediction = "blank"
    /\ stable_frame_count = NoAttribute
    /\ already_locked = FALSE
    /\ payload = "none"
    /\ result = plain_result("not called", "")
    /\ response = [status |-> 0, body |-> ""]
    /\ calls = <<>>
    /\ region = no_region
    /\ run = NotPure
    /\ pc = [t \in Threads |-> "idle"]
    /\ cur = [t \in Threads |-> "blank"]
    /\ acc = [t \in Threads |-> <<>>]
    /\ commits = 0
    /\ overlaps = 0

-----------------------------------------------------------------------------
(* The requests the specifications draw from *)

no_frame(image) ==
    [image |-> image, h |-> 0, w |-> 0, contours |-> <<>>,
     primary |-> 0, dru |-> 0, tkdi |-> 0, smn |-> 0, fail |-> "none"]

frame(shape, contours, primary, dru, tkdi, smn, fail) ==
    [image |-> "valid", h |-> shape[1], w |-> shape[2], contours |-> contours,
     primary |-> primary, dru |-> dru, tkdi |-> tkdi, smn |-> smn,
     fail |-> fail]

BadImages == {"absent", "empty", "malformed", "undecodable"}

\* one frame smaller than the region of interest, one larger
Shapes == {<<120, 160>>, <<480, 640>>}

NoHandContours == {<<>>, <<40, 2499>>}

HandContours == {<<40, 2500>>}

\* argmax of the primary model under Spec: blank, A, D
PrimaryOutputs == {0, 1, 4}

\* argmax of the DRU model under Spec: D, R
DruOutputs == {0, 1}

\* argmax of the primary model: blank, A, and every letter of a group
CascadeOutputs == {0, 1, 4, 9, 11, 13, 14, 18, 19, 20, 21}

\* a model that is not called is given one output: what it would return
\* changes nothing the frame does
Requests ==
    {no_frame(i) : i \in BadImages}
    \cup {frame(s, c, 0, 0, 0, 0, "none") : s \in Shapes, c \in NoHandContours}
    \cup {frame(<<480, 640>>, c, p, 0, 0, 0, f) :
             c \in HandContours, p \in PrimaryOutputs \ {4},
             f \in {"none", "primary"}}
    \cup {frame(<<480, 640>>, c, 4, r, 0, 0, f) :
             c \in HandContours, r \in DruOutputs, f \in {"none", "dru"}}

\* every output of every model where the primary model says D, the letter of
\* two groups; elsewhere every output of the model the frame consults
CascadeRequests ==
    {frame(<<480, 640>>, c, 0, 0, 0, 0, "none") : c \in NoHandContours}
    \cup {frame(<<480, 640>>, <<40, 2500>>, 4, r, t, m, "none") :
             r \in 0..2, t \in 0..3, m \in 0..2}
    \cup {frame(<<480, 640>>, <<40, 2500>>, p, 0, 0, 0, "none") :
             p \in {0, 1}}
    \cup {frame(<<480, 640>>, <<40, 2500>>, p, r, 0, 0, "none") :
             p \in {18, 21}, r \in 0..2}
    \cup {frame(<<480, 640>>, <<40, 2500>>, p, 0, t, 0, "none") :
             p \in {9, 11, 20}, t \in 0..3}
    \cup {frame(<<480, 640>>, <<40, 2500>>, p, 0, 0, m, "none") :
             p \in {13, 14, 19}, m \in 0..2}

\* frame heights and widths around roi_h and roi_w, and far below them
RoiHeights == {1, 120, 288, 289, 290, 480}

RoiWidths == {1, 160, 514, 515, 516, 641}

\* frames of every such shape, without a hand and, where the region is large
\* enough to hold a contour of MIN_CONTOUR_AREA, with one that the primary
\* model calls blank or A
RoiRequests ==
    {frame(<<h, w>>, c, 0, 0, 0, 0, "none") :
        h \in RoiHeights, w \in RoiWidths, c \in NoHandContours}
    \cup {d \in {frame(<<h, w>>, <<40, 2500>>, p, 0, 0, 0, "none") :
                    h \in RoiHeights, w \in RoiWidths, p \in {0, 1}} :
             roi_rows(d.h) * roi_cols(d.w) >= MIN_CONTOUR_AREA}

\* the bound on the word: a frame that would commit a letter is only fed
\* while the word has fewer than cap characters
has_room(d, cap) ==
    LET sym == handled_symbol(d)
    IN ~ /\ reaches_handle_prediction(d)
         /\ sym # "blank"
         /\ ~raises_attribute_error(sym)
         /\ commit_due(count_after(sym), locked_after(sym))
         /\ Len(current_word) >= cap

\* the bound on the run: a frame is only fed while the run it extends has
\* at most cap frames
short_run(d, cap) ==
    reaches_handle_prediction(d) => count_after(handled_symbol(d)) <= cap

\* under Spec and SpecCascade a request runs to its end before the next
Predict ==
    /\ \E d \in Requests : has_room(d, MaxWordLen) /\ predict(d)
    /\ UNCHANGED racevars

Reset ==
    /\ reset
    /\ UNCHANGED racevars

Next ==
    Predict \/ Reset

Spec ==
    Init /\ [][Next]_vars

CascadePredict ==
    /\ \E d \in CascadeRequests : short_run(d, MaxCascadeRun) /\ predict(d)
    /\ UNCHANGED racevars

CascadeNext ==
    CascadePredict \/ Reset

SpecCascade ==
    Init /\ [][CascadeNext]_vars

RoiPredict ==
    /\ \E d \in RoiRequests : short_run(d, MaxCascadeRun) /\ predict(d)
    /\ UNCHANGED racevars

RoiNext ==
    RoiPredict \/ Reset

SpecRoi ==
    Init /\ [][RoiNext]_vars

-----------------------------------------------------------------------------
(* Two request threads in _handle_prediction at once.  The server runs each    *)
(* request in a thread of its own and nothing serializes them on the shared    *)
(* system object, so the interpreter may switch threads between any two         *)
(* accesses of its attributes.  Each step below is one such access; "x += e" is *)
(* a load and a store.  What comes before _handle_prediction in a request      *)
(* touches no attribute of the session, and the dict a raced request returns   *)
(* is not recorded.                                                             *)

\* the symbols the raced requests carry
RaceSymbols == {"A", "blank"}

goto(t, line) == pc' = [pc EXCEPT ![t] = line]

pipeline == <<payload, result, response, calls, region, run>>

\* a request of another thread has entered _handle_prediction and not left
in_flight(t) == \E u \in Threads \ {t} : pc[u] # "idle"

\* line 157, 126 or 103: the call; a request is only started while the word
\* has room, and next to a request in flight at most MaxOverlaps times
race_call(t, s) ==
    /\ pc[t] = "idle"
    /\ Len(current_word) < MaxWordLen
    /\ in_flight(t) => overlaps < MaxOverlaps
    /\ goto(t, "l161")
    /\ cur' = [cur EXCEPT ![t] = s]
    /\ overlaps' = IF in_flight(t) THEN overlaps + 1 ELSE overlaps
    /\ UNCHANGED <<session, pipeline, acc, commits>>

\* line 161
race_l161(t) ==
    /\ pc[t] = "l161"
    /\ goto(t, IF cur[t] = last_prediction THEN "l162" ELSE "l166")
    /\ UNCHANGED <<session, pipeline, cur, acc, commits, overlaps>>

\* line 162
race_l162(t) ==
    /\ pc[t] = "l162"
    /\ goto(t, IF ~already_locked THEN "l163" ELSE "l171")
    /\ UNCHANGED <<session, pipeline, cur, acc, commits, overlaps>>

\* line 163, the load; AttributeError ends the request
race_l163_load(t) ==
    /\ pc[t] = "l163"
    /\ IF stable_frame_count = NoAttribute
       THEN goto(t, "idle") /\ UNCHANGED acc
       ELSE goto(t, "l163s") /\ acc' = [acc EXCEPT ![t] = stable_frame_count]
    /\ UNCHANGED <<session, pipeline, cur, commits, overlaps>>

\* line 163, the store
race_l163_store(t) ==
    /\ pc[t] = "l163s"
    /\ stable_frame_count' = acc[t] + 1
    /\ acc' = [acc EXCEPT ![t] = <<>>]
    /\ goto(t, "l171")
    /\ UNCHANGED <<current_word, last_prediction, already_locked, pipeline,
                   cur, commits, overlaps>>

\* line 166
race_l166(t) ==
    /\ pc[t] = "l166"
    /\ last_prediction' = cur[t]
    /\ commits' = 0
    /\ goto(t, "l167")
    /\ UNCHANGED <<current_word, stable_frame_count, already_locked, pipeline,
                   cur, acc, overlaps>>

\* line 167
race_l167(t) ==
    /\ pc[t] = "l167"
    /\ stable_frame_count' = 1
    /\ goto(t, "l168")
    /\ UNCHANGED <<current_word, last_prediction, already_locked, pipeline,
                   cur, acc, commits, overlaps>>

\* line 168
race_l168(t) ==
    /\ pc[t] = "l168"
    /\ already_locked' = FALSE
    /\ goto(t, "l171")
    /\ UNCHANGED <<current_word, last_prediction, stable_frame_count, pipeline,
                   cur, acc, commits, overlaps>>

\* line 171
race_l171(t) ==
    /\ pc[t] = "l171"
    /\ goto(t, IF stable_frame_count = NoAttribute THEN "idle" ELSE "l174")
    /\ UNCHANGED <<session, pipeline, cur, acc, commits, overlaps>>

\* line 174
race_l174(t) ==
    /\ pc[t] = "l174"
    /\ goto(t, IF stable_frame_count = NoAttribute THEN "idle"
               ELSE IF commit_due(stable_frame_count, already_locked)
               THEN "l175" ELSE "l185")
    /\ UNCHANGED <<session, pipeline, cur, acc, commits, overlaps>>

\* lines 175-176
race_l175(t) ==
    /\ pc[t] = "l175"
    /\ goto(t, IF cur[t] # "blank" THEN "l179"
               ELSE IF current_word # <<>>
                       /\ current_word[Len(current_word)] # " "
               THEN "l177" ELSE "l182")
    /\ UNCHANGED <<session, pipeline, cur, acc, commits, overlaps>>

\* line 177 or 179, the load
race_append_load(t) ==
    /\ pc[t] \in {"l177", "l179"}
    /\ acc' = [acc EXCEPT ![t] = current_word]
    /\ goto(t, "store")
    /\ UNCHANGED <<session, pipeline, cur, commits, overlaps>>

\* line 177 or 179, the store
race_append_store(t) ==
    /\ pc[t] = "store"
    /\ current_word' = Append(acc[t], IF cur[t] = "blank" THEN " " ELSE cur[t])
    /\ acc' = [acc EXCEPT ![t] = <<>>]
    /\ commits' = commits + 1
    /\ goto(t, "l182")
    /\ UNCHANGED <<last_prediction, stable_frame_count, already_locked,
                   pipeline, cur, overlaps>>

\* line 182 without the assignment of the lock
race_l182_unlocked(t) ==
    /\ pc[t] = "l182"
    /\ goto(t, "l185")
    /\ UNCHANGED <<session, pipeline, cur, acc, commits, overlaps>>

\* line 182
race_l182(t) ==
    /\ pc[t] = "l182"
    /\ already_locked' = TRUE
    /\ goto(t, "l185")
    /\ UNCHANGED <<current_word, last_prediction, stable_frame_count, pipeline,
                   cur, acc, commits, overlaps>>

\* lines 185-191
race_l185(t) ==
    /\ pc[t] = "l185"
    /\ goto(t, "idle")
    /\ UNCHANGED <<session, pipeline, cur, acc, commits, overlaps>>

\* /reset, taken here while no request is in flight
RaceReset ==
    /\ \A t \in Threads : pc[t] = "idle"
    /\ reset
    /\ commits' = 0
    /\ overlaps' = 0
    /\ UNCHANGED <<pc, cur, acc>>

RaceNext ==
    \/ \E t \in Threads, s \in RaceSymbols : race_call(t, s)
    \/ \E t \in Threads : race_l161(t)
    \/ \E t \in Threads : race_l162(t)
    \/ \E t \in Threads : race_l163_load(t)
    \/ \E t \in Threads : race_l163_store(t)
    \/ \E t \in Threads : race_l166(t)
    \/ \E t \in Threads : race_l167(t)
    \/ \E t \in Threads : race_l168(t)
    \/ \E t \in Threads : race_l171(t)
    \/ \E t \in Threads : race_l174(t)
    \/ \E t \in Threads : race_l175(t)
    \/ \E t \in Threads : race_append_load(t)
    \/ \E t \in Threads : race_append_store(t)
    \/ \E t \in Threads : race_l182(t)
    \/ \E t \in Threads : race_l185(t)
    \/ RaceReset

SpecRace ==
    Init /\ [][RaceNext]_vars

-----------------------------------------------------------------------------
(* Properties *)

\* the session as reset_state leaves it
ResetValues == <<<<>>, "blank", 0, FALSE>>

\* the last request ended in a completed _handle_prediction call
Handled == result.kind = "dict" /\ result.error = ""

\* this step is a completed _handle_prediction call
HandledStep == result'.kind = "dict" /\ result'.error = ""

IsPrefix(u, w) == Len(u) <= Len(w) /\ SubSeq(w, 1, Len(u)) = u

\* C1: from a freshly reset session, n calls in a row with one non-blank
\* symbol S leave the word empty and the session unlocked while n < 50, and
\* leave the word equal to S and the session locked from the 50th call on,
\* however many calls follow.
C1_CommitOnFiftiethFrame ==
    (run.pure /\ run.len > 0 /\ run.sym # "blank") =>
        IF run.len < LOCK_THRESHOLD
        THEN current_word = <<>> /\ ~already_locked
        ELSE current_word = <<run.sym>> /\ already_locked

C1_Witness ==
    /\ run.pure /\ run.sym = "A" /\ run.len = LOCK_THRESHOLD + MaxExtra
    /\ current_word = <<"A">> /\ already_locked

\* C2: a _handle_prediction call whose symbol differs from last_prediction
\* leaves last_prediction equal to the symbol, the counter at 1 and the session
\* unlocked; and the counter is 0 only in the state reset_state leaves, before
\* any call.
C2_ChangeRestartsAtOne ==
    /\ [](stable_frame_count = 0 => (session = ResetValues /\ run = FreshRun))
    /\ [][(HandledStep /\ result'.prediction # last_prediction) =>
            /\ last_prediction' = result'.prediction
            /\ stable_frame_count' = 1
            /\ ~already_locked']_vars

\* a symbol change after a lock: the word holds a letter, the run is new
C2_Witness ==
    /\ Handled /\ current_word = <<"A">> /\ last_prediction = "D"
    /\ stable_frame_count = 1 /\ ~already_locked

NoLeadingOrDoubleSpace(word) ==
    /\ word # <<>> => word[1] # " "
    /\ \A i \in 1..(Len(word) - 1) : ~(word[i] = " " /\ word[i + 1] = " ")

\* C3: a blank commit appends one space if the word is non-empty and does not
\* end with a space, and nothing otherwise; the word never starts with a
\* space and never holds two adjacent spaces.
C3_SingleSeparator ==
    /\ []NoLeadingOrDoubleSpace(current_word)
    /\ [][(/\ HandledStep /\ result'.prediction = "blank"
           /\ already_locked'
           /\ ~(already_locked /\ last_prediction = "blank")) =>
            current_word' =
                IF current_word # <<>> /\ current_word[Len(current_word)] # " "
                THEN Append(current_word, " ")
                ELSE current_word]_vars

\* a blank lock after a committed letter and its separator
C3_Witness ==
    /\ current_word = <<"A", " ">> /\ last_prediction = "blank"
    /\ already_locked /\ Handled

\* C4: after reset the word is empty, last_prediction is blank, the counter
\* is 0 and the session is unlocked, whatever the state before.
C4_ResetYieldsResetValues ==
    response.body = "Reset complete" => session = ResetValues

C4_Witness ==
    response.body = "Reset complete" /\ session = ResetValues

\* C5: the confidence returned is min(100, counter * 100 / 50) of the counter
\* as updated by the call; it is 100 whenever the counter is at least 50; a
\* call with the unchanged symbol never returns less than the call before it
\* while unlocked, and returns 100 while locked.
C5_Confidence ==
    /\ [](Handled =>
            /\ result.confidence =
                 IF stable_frame_count * 2 < 100
                 THEN stable_frame_count * 2 ELSE 100
            /\ stable_frame_count >= 50 => result.confidence = 100)
    /\ [][(HandledStep /\ Handled /\ result'.prediction = last_prediction) =>
            /\ result'.confidence >= result.confidence
            /\ already_locked => result'.confidence = 100]_vars

\* a later call of a locked run
C5_Witness ==
    /\ Handled /\ result.confidence = 100 /\ already_locked
    /\ run.pure /\ run.len > LOCK_THRESHOLD

\* C6: the session as constructed, never reset, behaves as the session
\* reset_state leaves: the first request, if it reaches _handle_prediction,
\* returns a prediction for every symbol, blank included, and leaves the
\* counter at 1.
C6_FirstCallSucceeds ==
    [][(/\ response.status = 0
        /\ result'.kind \in {"dict", "raise"}
        /\ result'.error \in {"", "AttributeError"}) =>
         (HandledStep /\ stable_frame_count' = 1)]_vars

\* C7: a step other than reset leaves the word a prefix of the word after
\* it, at most one character longer, and unchanged unless the step is a
\* completed _handle_prediction call.
C7_WordOnlyGrows ==
    [][response'.body # "Reset complete" =>
        /\ IsPrefix(current_word, current_word')
        /\ Len(current_word') <= Len(current_word) + 1
        /\ ~HandledStep => current_word' = current_word]_vars

\* a letter appended to a letter, then the separator
C7_Witness ==
    current_word = <<"A", "R", " ">>

\* C8 as claimed: a request whose image is malformed, empty or absent is
\* answered with the processing-failed result and leaves the session as it was.
C8_BadPayloadProcessingFailed ==
    /\ [](payload \in BadImages =>
            response = [status |-> 500, body |-> "Processing failed"])
    /\ [][payload' \in BadImages => UNCHANGED session]_vars

\* C8 as amended: a malformed image makes process_frame return None, answered
\* as processing failed; an empty image makes it return the error dict
\* "No image data", answered with status 200; a request without image is
\* answered "No image data" with status 400 and process_frame is not called;
\* the session is as it was in each case.
C8_BadPayloadLeavesSession ==
    /\ [](/\ payload \in {"malformed", "undecodable"} =>
               /\ result = plain_result("None", "")
               /\ response = [status |-> 500, body |-> "Processing failed"]
          /\ payload = "empty" =>
               /\ result = plain_result("dict", "No image data")
               /\ response = [status |-> 200, body |-> "result"]
          /\ payload = "absent" =>
               /\ result.kind = "not called"
               /\ response = [status |-> 400, body |-> "No image data"])
    /\ [][payload' \in BadImages => UNCHANGED session]_vars

\* a malformed image after a committed letter
C8_Witness ==
    /\ payload = "malformed" /\ result.kind = "None"
    /\ current_word = <<"A">> /\ already_locked

\* C9: when a model's predict() raises, process_frame returns None, answered
\* as processing failed, and the session is as it was.
C9_InferenceFailureCaught ==
    [][(calls' # <<>> /\ calls'[Len(calls')].raised) =>
        /\ result'.kind = "None"
        /\ response' = [status |-> 500, body |-> "Processing failed"]
        /\ UNCHANGED session]_vars

\* C10: when the primary model's top label is D, the DRU model is the one
\* model consulted after it, the TKDI model is not called, and the symbol
\* handled is the DRU model's argmax, one of D, R, U.
C10_DGoesToDRU ==
    (calls # <<>> /\ ~calls[1].raised /\ top_symbol(calls[1].argmax) = "D") =>
        /\ Len(calls) = 2
        /\ calls[2].model = "dru"
        /\ \A i \in 1..Len(calls) : calls[i].model # "tkdi"
        /\ Handled => /\ result.prediction = DRU[calls[2].argmax + 1]
                      /\ result.prediction \in {"D", "R", "U"}

\* top label D refined to U
C10_Witness ==
    /\ Len(calls) = 2 /\ calls[1].argmax = 4 /\ calls[2].model = "dru"
    /\ Handled /\ result.prediction = "U"

-----------------------------------------------------------------------------
(* Properties of the frame pipeline and of interleaved requests *)

\* the frames of Requests in which no hand is found
NoHandRequests ==
    {d \in Requests : d.image = "valid" /\ d.contours \in NoHandContours}

\* C11: a frame with no external contour, or whose largest contour is below
\* 2500, calls no model and goes through _handle_prediction with the symbol
\* blank: the session, the result and the response are those of a blank that
\* the models produced.
C11_NoHandIsBlank ==
    [][\A d \in NoHandRequests :
         predict(d) =>
            /\ calls' = <<>>
            /\ handle_prediction("blank")
            /\ HandledStep =>
                 /\ result'.prediction = "blank"
                 /\ last_prediction' = "blank"
                 /\ response' = [status |-> 200, body |-> "result"]]_vars

\* a run of frames without hand has locked and committed the separator
C11_Witness ==
    /\ payload = "valid" /\ calls = <<>> /\ Handled
    /\ result.prediction = "blank" /\ already_locked
    /\ stable_frame_count = LOCK_THRESHOLD
    /\ current_word = <<"A", " ">> /\ result.word = <<"A", " ">>

\* C12: requests served one after another never commit one stable run twice
\* and never count past LOCK_THRESHOLD; only requests whose statements of
\* _handle_prediction interleave on the shared session do (the state of
\* C12_Witness), since nothing serialises them.
C12_OnlyInterleavingCorrupts ==
    overlaps = 0 =>
        /\ commits <= 1
        /\ stable_frame_count <= LOCK_THRESHOLD

\* two interleaved requests have both appended the letter of one stable run
C12_Witness ==
    /\ overlaps = 1
    /\ commits = 2
    /\ current_word = <<"A", "A">>
    /\ last_prediction = "A"

\* the symbol process_frame hands to _handle_prediction after the predict()
\* calls cs: blank when no model was called, else what the last call ranked
\* highest
passed_symbol(cs) ==
    IF cs = <<>>
    THEN "blank"
    ELSE LET last == cs[Len(cs)]
         IN IF last.model = "dru" THEN DRU[last.argmax + 1]
            ELSE IF last.model = "tkdi" THEN TKDI[last.argmax + 1]
            ELSE IF last.model = "smn" THEN SMN[last.argmax + 1]
            ELSE top_symbol(last.argmax)

\* C13: the dict a completed _handle_prediction call returns has prediction
\* equal to the symbol the call was given, character equal to prediction, an
\* empty sentence, a confidence within 0..100 and, as word, the session's
\* word as the call leaves it, a commit made by the call included.
C13_ResponseRecord ==
    Handled =>
        /\ result.prediction = passed_symbol(calls)
        /\ result.character = result.prediction
        /\ result.sentence = ""
        /\ result.confidence \in 0..100
        /\ result.word = current_word

\* the 50th call of a run answers with the letter it has just committed
C13_Witness ==
    /\ Handled
    /\ run.pure /\ run.sym = "A" /\ run.len = LOCK_THRESHOLD
    /\ result.prediction = "A" /\ result.character = "A"
    /\ result.confidence = 100
    /\ result.word = <<"A">> /\ current_word = <<"A">>

\* C14: already_locked is true only while last_prediction is the symbol of
\* the most recent commit: a step that changes last_prediction and a reset
\* leave the flag false, and the flag turns true only in a completed call
\* that kept last_prediction and whose commit condition of line 174 held.
C14_LockedOnlySinceCommit ==
    [][/\ last_prediction' # last_prediction => ~already_locked'
       /\ response'.body = "Reset complete" => ~already_locked'
       /\ (~already_locked /\ already_locked') =>
            /\ HandledStep
            /\ result'.prediction = last_prediction'
            /\ last_prediction' = last_prediction
            /\ commit_due(stable_frame_count', FALSE)]_vars

\* a locked letter has been followed by another symbol, which unlocked
C14_Witness ==
    /\ Handled
    /\ current_word = <<"A">>
    /\ last_prediction = "blank"
    /\ stable_frame_count = 1
    /\ ~already_locked

\* C15: in any sequence of completed _handle_prediction calls, the calls in
\* a row with one symbol find the commit condition true at most once: not at
\* all while there are fewer than 50 of them, and once, in the 50th, from
\* then on.  Only that 50th call changes the word, so a symbol interrupted
\* before its 50th frame commits nothing and starts again from one.
C15_OneCommitPerRun ==
    /\ [](run.streak > 0 =>
            run.fired = IF run.streak >= LOCK_THRESHOLD THEN 1 ELSE 0)
    /\ [][HandledStep =>
            /\ run'.streak # LOCK_THRESHOLD => current_word' = current_word
            /\ run'.streak = LOCK_THRESHOLD =>
                 current_word' = committed_word(current_word, run'.held)
            /\ result'.prediction # run.held => run'.streak = 1]_vars

\* after calls with other symbols that committed nothing, A was held for 50
\* frames and one more
C15_Witness ==
    /\ Handled
    /\ ~run.pure
    /\ run.held = "A" /\ run.streak = LOCK_THRESHOLD + 1 /\ run.fired = 1
    /\ current_word = <<"A">>

\* C16: a frame that reaches the models calls the primary model and at most
\* one more, chosen by the first of the groups D R U, D I K T, M N S that
\* holds the primary model's top label; the symbol handled is then that
\* model's argmax, a letter of the group, and with a top label in no group
\* (blank or another letter) no second model is called and the symbol
\* handled is the top label.
C16_FirstMatchingGroup ==
    (calls # <<>> /\ Handled) =>
        LET candidate == top_symbol(calls[1].argmax)
            final == result.prediction
        IN /\ calls[1].model = "primary"
           /\ Len(calls) <= 2
           /\ IF candidate \in {"D", "R", "U"}
              THEN /\ Len(calls) = 2 /\ calls[2].model = "dru"
                   /\ final = DRU[calls[2].argmax + 1]
                   /\ final \in {"D", "R", "U"}
              ELSE IF candidate \in {"D", "I", "K", "T"}
              THEN /\ Len(calls) = 2 /\ calls[2].model = "tkdi"
                   /\ final = TKDI[calls[2].argmax + 1]
                   /\ final \in {"D", "I", "K", "T"}
              ELSE IF candidate \in {"M", "N", "S"}
              THEN /\ Len(calls) = 2 /\ calls[2].model = "smn"
                   /\ final = SMN[calls[2].argmax + 1]
                   /\ final \in {"M", "N", "S"}
              ELSE /\ Len(calls) = 1
                   /\ final = candidate

\* top label K, of the second group only, refined to I
C16_Witness ==
    /\ Handled
    /\ Len(calls) = 2 /\ top_symbol(calls[1].argmax) = "K"
    /\ calls[2].model = "tkdi"
    /\ result.prediction = "I"

\* C17: the counter, the lock and the commit work on the symbol the cascade
\* ends with.  50 frames from a reset session with top label D that the DRU
\* model turns into R commit R and no D; and a frame with top label D is
\* handled as the DRU model's letter, so that after a frame with top label D
\* a frame with the same top label and another DRU output is a symbol change:
\* it restarts the counter at 1, unlocked, and commits nothing.
C17_FinalSymbolCounts ==
    /\ []((run.pure /\ run.sym = "R" /\ run.len >= LOCK_THRESHOLD) =>
            current_word = <<"R">>)
    /\ [][(HandledStep /\ calls' # <<>>
              /\ top_symbol(calls'[1].argmax) = "D") =>
            /\ last_prediction' = DRU[calls'[2].argmax + 1]
            /\ run'.held = DRU[calls'[2].argmax + 1]
            /\ (Handled /\ calls # <<>>
                  /\ top_symbol(calls[1].argmax) = "D"
                  /\ calls'[2].argmax # calls[2].argmax) =>
                 /\ stable_frame_count' = 1
                 /\ ~already_locked'
                 /\ run'.streak = 1
                 /\ current_word' = current_word]_vars

\* the 50th frame in a row, since the reset, with top label D refined to R
C17_Witness ==
    /\ Handled
    /\ Len(calls) = 2 /\ top_symbol(calls[1].argmax) = "D"
    /\ calls[2].model = "dru" /\ DRU[calls[2].argmax + 1] = "R"
    /\ run.pure /\ run.sym = "R" /\ run.len = LOCK_THRESHOLD
    /\ current_word = <<"R">> /\ already_locked

\* C18: while the session is locked, a completed _handle_prediction call
\* with the symbol of last_prediction leaves the word, last_prediction, the
\* counter and the lock as they were, so any number of such calls leaves the
\* session where the first found it.
C18_LockedCallKeepsSession ==
    [][(HandledStep /\ already_locked
          /\ result'.prediction = last_prediction) =>
            UNCHANGED session]_vars

\* blank held beyond the lock after a committed letter
C18_Witness ==
    /\ Handled /\ already_locked
    /\ run.held = "blank" /\ run.streak = LOCK_THRESHOLD + MaxExtra
    /\ session = <<<<"A", " ">>, "blank", LOCK_THRESHOLD, TRUE>>

\* the region of a frame shorter than roi_h or narrower than roi_w
SmallFrame == region # no_region /\ (region.h < roi_h \/ region.w < roi_w)

\* the region starts where lines 98-99 put it and lies within the frame
RegionInFrame ==
    region # no_region =>
        /\ region.y1 = Max(0, (region.h - roi_h) \div 2)
        /\ region.x1 = Max(0, (region.w - roi_w) \div 2)
        /\ region.y1 + region.rows <= region.h
        /\ region.x1 + region.cols <= region.w
        /\ region.rows <= roi_h /\ region.cols <= roi_w

\* C19 as stated: the region starts at (max(0, (H-289)/2), max(0, (W-515)/2))
\* and lies within the frame, and the region of a frame smaller than 515 x 289
\* has zero area, so that the frame is handled as blank and no model sees a
\* mask of it.
C19_SmallFrameHasNoRegion ==
    /\ RegionInFrame
    /\ SmallFrame =>
         /\ region.rows * region.cols = 0
         /\ calls = <<>>
         /\ Handled => result.prediction = "blank"

\* C19, amended: the region starts at (max(0, (H-289)/2), max(0, (W-515)/2))
\* and lies within the frame; it holds min(H, 289) rows and min(W, 515)
\* columns, so the region of a frame smaller than 515 x 289 is what the frame
\* has from that corner on, never of zero area, and the frame goes on to the
\* threshold, the contour test and the models like any other.
C19_SmallFrameRegionIsClamped ==
    /\ RegionInFrame
    /\ region # no_region =>
         /\ region.rows = Min(region.h, roi_h)
         /\ region.cols = Min(region.w, roi_w)
         /\ region.rows * region.cols > 0
    /\ (SmallFrame /\ calls # <<>> /\ Handled) =>
         result.prediction = passed_symbol(calls)

\* a frame of 120 x 516, shorter than the region, classified as A
C19_Witness ==
    /\ region = [h |-> 120, w |-> 516, y1 |-> 0, x1 |-> 0,
                 rows |-> 120, cols |-> 515]
    /\ Len(calls) = 1 /\ calls[1].model = "primary"
    /\ Handled /\ result.prediction = "A" /\ last_prediction = "A"

\* C20: with requests served one after another, once reset_state or a call
\* has given the session its counter, the counter stays within
\* 0..LOCK_THRESHOLD after every call and every reset, and the session is
\* locked exactly when the counter is at LOCK_THRESHOLD.
C20_CounterWithinThreshold ==
    stable_frame_count # NoAttribute =>
        /\ stable_frame_count \in 0..LOCK_THRESHOLD
        /\ already_locked <=> stable_frame_count = LOCK_THRESHOLD

\* a second letter locked, two frames beyond the threshold
C20_Witness ==
    /\ Handled
    /\ session = <<<<"A", "D">>, "D", LOCK_THRESHOLD, TRUE>>
    /\ run.streak = LOCK_THRESHOLD + MaxExtra

====
